---------------------------- MODULE Spec2Model ----------------------------
(***************************************************************************)
(* Model of network_stats (network_stats.h / network_stats.cpp): a monitor *)
(* that opens one read handle per subscribed sysfs counter and re-reads    *)
(* the decimal text of each counter on update.                             *)
(*                                                                         *)
(* Numbers that do not fit a TLC integer (64-bit counters) are kept as     *)
(* canonical decimal digit tuples, most significant digit first, so that   *)
(* LONG_MAX and the uint64_t wrap-around are exact.                        *)
(***************************************************************************)
EXTENDS Integers, Sequences, FiniteSets, TLC

(***************************************************************************)
(* Bounds of the model.                                                    *)
(***************************************************************************)
\* number of times the kernel rewrites a counter file in one behaviour
MaxWrites == 1

(***************************************************************************)
(* enum rx_fields / enum tx_fields                                         *)
(***************************************************************************)
RX_BYTES == 0
RX_COMPRESSED == 1
RX_CRC_ERRORS == 2
RX_DROPPED == 3
RX_ERRORS == 4
RX_FIFO_ERRORS == 5
RX_FRAME_ERRORS == 6
RX_LENGTH_ERRORS == 7
RX_MISSED_ERRORS == 8
RX_OVER_ERRORS == 9
RX_PACKETS == 10

TX_ABORTED_ERRORS == 0
TX_BYTES == 1
TX_CARRIER_ERRORS == 2
TX_COMPRESSED == 3
TX_DROPPED == 4
TX_ERRORS == 5
TX_FIFO_ERRORS == 6
TX_HEARTBEAT_ERRORS == 7
TX_PACKETS == 8
TX_WINDOW_ERRORS == 9

rx_fields == RX_BYTES .. RX_PACKETS
tx_fields == TX_ABORTED_ERRORS .. TX_WINDOW_ERRORS

READ_SIZE == 32

SYSFS_PATH == "/sys/class/net/"
STATS_DIR == "/statistics/"

(***************************************************************************)
(* Decimal digit tuples: the values of long and uint64_t.                  *)
(***************************************************************************)
Zero == <<0>>

\* LONG_MAX = 2^63 - 1, |LONG_MIN| = 2^63, 2^64 of an LP64 build
LONG_MAX == <<9,2,2,3,3,7,2,0,3,6,8,5,4,7,7,5,8,0,7>>
LONG_MIN_MAG == <<9,2,2,3,3,7,2,0,3,6,8,5,4,7,7,5,8,0,8>>
UINT64_MOD == <<1,8,4,4,6,7,4,4,0,7,3,7,0,9,5,5,1,6,1,6>>

RECURSIVE Canon(_)
\* drop leading zeros, keeping one digit
Canon(d) == IF Len(d) > 1 /\ d[1] = 0 THEN Canon(Tail(d)) ELSE d

RECURSIVE LexLess(_, _)
\* a < b for digit tuples of equal length
LexLess(a, b) ==
    IF a = <<>> THEN FALSE
    ELSE IF a[1] # b[1] THEN a[1] < b[1]
    ELSE LexLess(Tail(a), Tail(b))

\* a < b for canonical digit tuples
DigitsLess(a, b) ==
    IF Len(a) # Len(b) THEN Len(a) < Len(b) ELSE LexLess(a, b)

RECURSIVE PadTo(_, _)
PadTo(d, n) == IF Len(d) >= n THEN d ELSE PadTo(<<0>> \o d, n)

RECURSIVE SubAligned(_, _, _, _)
\* a - b for equal-length tuples with a >= b, from position i down to 1
SubAligned(a, b, i, borrow) ==
    IF i = 0 THEN <<>>
    ELSE LET raw == a[i] - b[i] - borrow
             dig == IF raw < 0 THEN raw + 10 ELSE raw
             nb == IF raw < 0 THEN 1 ELSE 0
         IN  SubAligned(a, b, i - 1, nb) \o <<dig>>

\* a - b for canonical digit tuples with a >= b
DigitsSub(a, b) ==
    Canon(SubAligned(a, PadTo(b, Len(a)), Len(a), 0))

(***************************************************************************)
(* errno.  The code compares errno with 0 and with EINTR only, so every    *)
(* other error code is one value.                                          *)
(***************************************************************************)
EINTR == "EINTR"
ENOENT == "EOTHER"
EIO == "EOTHER"
ERANGE == "EOTHER"
EINVAL == "EOTHER"

(***************************************************************************)
(* strtol(rbuf, &endptr, 10) on a text given as a tuple of characters.     *)
(***************************************************************************)
DigitChars == <<"0", "1", "2", "3", "4", "5", "6", "7", "8", "9">>
IsDigit(c) == \E i \in 1..10 : DigitChars[i] = c
DigitVal(c) == (CHOOSE i \in 1..10 : DigitChars[i] = c) - 1
IsSpace(c) == c \in {" ", "\n", "\t"}

RECURSIVE SkipSpace(_)
SkipSpace(t) == IF t # <<>> /\ IsSpace(t[1]) THEN SkipSpace(Tail(t)) ELSE t

RECURSIVE DigitRun(_)
\* the values of the leading run of digit characters
DigitRun(t) ==
    IF t # <<>> /\ IsDigit(t[1]) THEN <<DigitVal(t[1])>> \o DigitRun(Tail(t))
    ELSE <<>>

\* strtol: [neg, mag] is the long returned, errno the value of errno after
\* the call.  einval: whether this libc sets EINVAL when no digit is found
\* (POSIX allows both; glibc does not, musl does).
strtol(text, errno_in, einval) ==
    LET t1 == SkipSpace(text)
        neg == t1 # <<>> /\ t1[1] = "-"
        t2 == IF t1 # <<>> /\ t1[1] \in {"-", "+"} THEN Tail(t1) ELSE t1
        run == DigitRun(t2)
        mag == Canon(run)
        lim == IF neg THEN LONG_MIN_MAG ELSE LONG_MAX
    IN  IF run = <<>>
        THEN [neg |-> FALSE, mag |-> Zero, conv |-> FALSE,
              errno |-> IF einval THEN EINVAL ELSE errno_in]
        ELSE IF DigitsLess(lim, mag)
        THEN [neg |-> neg, mag |-> lim, conv |-> TRUE, errno |-> ERANGE]
        ELSE [neg |-> neg /\ mag # Zero, mag |-> mag, conv |-> TRUE,
              errno |-> errno_in]

\* (uint64_t)value for the long [neg, mag]
ToUint64(neg, mag) ==
    IF neg /\ mag # Zero THEN DigitsSub(UINT64_MOD, mag) ELSE mag

(***************************************************************************)
(* The environment: /sys/class/net and the counter files.                  *)
(***************************************************************************)
\* interface names a caller may pass; only those in NetDirs exist
Interfaces == {"lo", "eth9"}
NetDirs == {"lo"}

\* the table that build_fields_to_filename_maps inserts
RxFilenameTable ==
    [r \in rx_fields |->
        CASE r = RX_BYTES -> "rx_bytes"
          [] r = RX_COMPRESSED -> "rx_compressed"
          [] r = RX_CRC_ERRORS -> "rx_crc_errors"
          [] r = RX_DROPPED -> "rx_dropped"
          [] r = RX_ERRORS -> "rx_errors"
          [] r = RX_FIFO_ERRORS -> "rx_fifo_errors"
          [] r = RX_FRAME_ERRORS -> "rx_frame_errors"
          [] r = RX_LENGTH_ERRORS -> "rx_length_errors"
          [] r = RX_MISSED_ERRORS -> "rx_missed_errors"
          [] r = RX_OVER_ERRORS -> "rx_over_errors"
          [] r = RX_PACKETS -> "rx_packets"]

TxFilenameTable ==
    [t \in tx_fields |->
        CASE t = TX_ABORTED_ERRORS -> "tx_aborted_errors"
          [] t = TX_BYTES -> "tx_bytes"
          [] t = TX_CARRIER_ERRORS -> "tx_carrier_errors"
          [] t = TX_COMPRESSED -> "tx_compressed"
          [] t = TX_DROPPED -> "tx_dropped"
          [] t = TX_ERRORS -> "tx_errors"
          [] t = TX_FIFO_ERRORS -> "tx_fifo_errors"
          [] t = TX_HEARTBEAT_ERRORS -> "tx_heartbeat_errors"
          [] t = TX_PACKETS -> "tx_packets"
          [] t = TX_WINDOW_ERRORS -> "tx_window_errors"]

\* the kinds callers ask for: two of one direction and one of the other
RxAsked == {RX_BYTES, RX_PACKETS}
TxAsked == {TX_BYTES}

\* the sets a caller passes to the subscribe calls
RxRequests == {{}, {RX_BYTES}, RxAsked}
TxRequests == {{}, TxAsked}

StatsPathOf(iface) == SYSFS_PATH \o iface \o STATS_DIR
RxPath(iface, r) == StatsPathOf(iface) \o RxFilenameTable[r]
TxPath(iface, t) == StatsPathOf(iface) \o TxFilenameTable[t]

\* the counter files that exist (those of the interfaces in NetDirs)
StatFiles ==
    {RxPath(i, r) : i \in NetDirs, r \in RxAsked}
        \cup {TxPath(i, t) : i \in NetDirs, t \in TxAsked}

\* texts the kernel may expose in a counter file
T_7 == <<"7", "\n">>
T_12345 == <<"1", "2", "3", "4", "5", "\n">>
T_abc == <<"a", "b", "c">>
\* 32 digits and a newline: a read of READ_SIZE bytes returns READ_SIZE
T_long == [i \in 1..33 |-> IF i = 33 THEN "\n" ELSE "1"]
Texts == {T_7, T_12345, T_abc, T_long}

\* the texts the kernel may put in each file: every file changes its number,
\* the receive files also get the over-long text, one of them the
\* non-numeric one
TextsOf(p) ==
    IF p = RxPath("lo", RX_BYTES) THEN Texts
    ELSE IF p = RxPath("lo", RX_PACKETS) THEN Texts \ {T_abc}
    ELSE Texts \ {T_abc, T_long}

\* outcomes of lseek and read on one descriptor during one update call:
\* lseek fails; read fails with EIO or EINTR; read returns 0 bytes (and
\* leaves errno alone)
IoOutcomes == {"ok", "lseek_fail", "read_eio", "read_eintr", "read_zero"}

\* the outcomes of one update call over the open descriptors fds.  The loops
\* stop at the first exception, so a call in which several descriptors
\* fail behaves as the call in which only the first of them fails.
IoChoices(fds) ==
    {[f \in fds |-> "ok"]}
        \cup {[f \in fds |-> IF f = bad THEN o ELSE "ok"] :
                  bad \in fds, o \in IoOutcomes \ {"ok"}}

(***************************************************************************)
(* State.                                                                  *)
(***************************************************************************)
VARIABLES
    rx_fields_to_filename,  \* static map rx kind -> filename
    tx_fields_to_filename,  \* static map tx kind -> filename
    object,                 \* "absent", "alive" or "destroyed"
    interface_name_,
    interface_stats_path_,
    rx_to_update_,          \* map rx kind -> netdata [value, fd]
    tx_to_update_,          \* map tx kind -> netdata [value, fd]
    errno,                  \* the thread's errno
    fdtable,                \* open descriptors of the process: fd -> path
    files,                  \* counter file path -> text
    op,                     \* the kind of operation that ran last
    exc,                    \* the exception it threw, or NoExc
    syslog,                 \* the system calls and error reports it made, in order
    opens,                  \* successful open calls of the live monitor
    subscribed,             \* has a subscribe call been made on it
    builds,                 \* calls of build_fields_to_filename_maps
    ret,                    \* what the last call returned to its caller
    writes                  \* kernel rewrites so far

vars == <<rx_fields_to_filename, tx_fields_to_filename, object,
          interface_name_, interface_stats_path_, rx_to_update_,
          tx_to_update_, errno, fdtable, files, op, exc, syslog,
          opens, subscribed, builds, ret, writes>>

EmptyMap == [k \in {} |-> 0]

NoExc == [path |-> "none", site |-> "none", desc |-> "none", arg |-> "none"]

\* error(...): throws std::runtime_error with strerror(errno) appended; arg
\* is what the message names: a path, or a descriptor printed with %d
OsError(site, arg, e) == [path |-> "error", site |-> site, desc |-> e, arg |-> arg]
\* runtime(...): throws std::runtime_error without an OS description
RuntimeError(site, arg) ==
    [path |-> "runtime", site |-> site, desc |-> "none", arg |-> arg]

\* netdata(fd) that leaves value uninitialised (here: whatever 7 was there)
netdata_uninitialised(fd) == [value |-> <<7>>, fd |-> fd]

\* the constructor, the destructor and the void member functions return
\* nothing
NoRet == [call |-> "none", value |-> "none"]

\* struct netdata, constructed as netdata(fd): value 0
netdata(fd) == [value |-> Zero, fd |-> fd]

Min(a, b) == IF a < b THEN a ELSE b

RECURSIVE SortedSeq(_)
\* the elements of a set of enum values in iteration order of std::set/map
SortedSeq(S) ==
    IF S = {} THEN <<>>
    ELSE LET m == CHOOSE x \in S : \A y \in S : x <= y
         IN  <<m>> \o SortedSeq(S \ {m})

\* open(2) returns the lowest descriptor not in use (0, 1, 2 are the stdio)
LowestFreeFd(fdt) == CHOOSE f \in 3..(3 + Cardinality(DOMAIN fdt)) :
                        /\ f \notin DOMAIN fdt
                        /\ \A g \in 3..(f - 1) : g \in DOMAIN fdt

Init ==
    /\ rx_fields_to_filename = EmptyMap
    /\ tx_fields_to_filename = EmptyMap
    /\ object = "absent"
    /\ interface_name_ = ""
    /\ interface_stats_path_ = ""
    /\ rx_to_update_ = EmptyMap
    /\ tx_to_update_ = EmptyMap
    /\ errno = "0"
    /\ fdtable = EmptyMap
    /\ files = [p \in StatFiles |-> T_7]
    /\ op = "none"
    /\ exc = NoExc
    /\ syslog = <<>>
    /\ opens = <<>>
    /\ subscribed = FALSE
    /\ builds = 0
    /\ ret = NoRet
    /\ writes = 0

(***************************************************************************)
(* The kernel rewrites a counter file.                                     *)
(***************************************************************************)
\* (nothing reads a counter file while no monitor is alive, so rewrites are
\* taken only then)
KernelWrite ==
    /\ writes < MaxWrites
    /\ object = "alive"
    /\ \E p \in StatFiles :
          \E t \in TextsOf(p) :
          /\ files[p] # t
          /\ files' = [files EXCEPT ![p] = t]
    /\ writes' = writes + 1
    /\ op' = "kernel"
    /\ exc' = NoExc
    /\ syslog' = <<>>
    /\ ret' = NoRet
    /\ UNCHANGED <<rx_fields_to_filename, tx_fields_to_filename, object,
                   interface_name_, interface_stats_path_, rx_to_update_,
                   tx_to_update_, errno, fdtable, opens, subscribed,
                   builds>>

(***************************************************************************)
(* network_stats::network_stats(interface)                                 *)
(***************************************************************************)
\* the members rx_to_update_ and tx_to_update_ are default-constructed
\* (empty) maps
NoMembers == [rx |-> EmptyMap, tx |-> EmptyMap, fdtable |-> fdtable]

\* the constructor with the test of opendir's result left out
construct_nocheck(iface, dirfault) ==
    LET interface_path == SYSFS_PATH \o iface
        failed == iface \notin NetDirs \/ dirfault = "opendir"
    IN  [exc |-> NoExc, errno |-> IF failed THEN ENOENT ELSE errno,
         path |-> interface_path \o STATS_DIR,
         rx |-> NoMembers.rx, tx |-> NoMembers.tx,
         fdtable |-> NoMembers.fdtable,
         log |-> <<[call |-> "opendir", arg |-> interface_path,
                    ret |-> IF failed THEN -1 ELSE LowestFreeFd(fdtable)]>>]

\* the constructor opening the rx_bytes file right away
construct_eager(iface, dirfault) ==
    LET interface_path == SYSFS_PATH \o iface
        dirfd == LowestFreeFd(fdtable)
    IN  IF iface \notin NetDirs \/ dirfault # "ok"
        THEN [exc |-> OsError("opendir", interface_path, ENOENT),
              errno |-> ENOENT, path |-> "",
              rx |-> NoMembers.rx, tx |-> NoMembers.tx,
              fdtable |-> NoMembers.fdtable,
              log |-> <<[call |-> "opendir", arg |-> interface_path,
                         ret |-> -1]>>]
        ELSE [exc |-> NoExc, errno |-> errno,
              path |-> interface_path \o STATS_DIR,
              rx |-> [k \in {RX_BYTES} |-> netdata(dirfd)],
              tx |-> NoMembers.tx,
              fdtable |-> [f \in DOMAIN fdtable \cup {dirfd} |->
                              IF f = dirfd
                              THEN interface_path \o STATS_DIR \o "rx_bytes"
                              ELSE fdtable[f]],
              log |-> <<[call |-> "opendir", arg |-> interface_path,
                         ret |-> dirfd],
                        [call |-> "closedir", arg |-> dirfd, ret |-> 0]>>]

\* the constructor's outcome; dirfault: "ok", or "opendir" / "closedir" fails
\* although the directory is there (it was removed meanwhile)
construct(iface, dirfault) ==
    LET interface_path == SYSFS_PATH \o iface
        dirfd == LowestFreeFd(fdtable)
    IN  IF iface \notin NetDirs \/ dirfault = "opendir"
        THEN [exc |-> OsError("opendir", interface_path, ENOENT),
              errno |-> ENOENT, path |-> "",
              rx |-> NoMembers.rx, tx |-> NoMembers.tx,
              fdtable |-> NoMembers.fdtable,
              log |-> <<[call |-> "opendir", arg |-> interface_path,
                         ret |-> -1]>>]
        ELSE IF dirfault = "closedir"
        THEN [exc |-> OsError("closedir", interface_path, EIO),
              errno |-> EIO, path |-> "",
              rx |-> NoMembers.rx, tx |-> NoMembers.tx,
              fdtable |-> NoMembers.fdtable,
              log |-> <<[call |-> "opendir", arg |-> interface_path,
                         ret |-> dirfd],
                        [call |-> "closedir", arg |-> dirfd, ret |-> -1]>>]
        ELSE [exc |-> NoExc, errno |-> errno,
              path |-> interface_path \o STATS_DIR,
              rx |-> NoMembers.rx, tx |-> NoMembers.tx,
              fdtable |-> NoMembers.fdtable,
              log |-> <<[call |-> "opendir", arg |-> interface_path,
                         ret |-> dirfd],
                        [call |-> "closedir", arg |-> dirfd, ret |-> 0]>>]

\* the constructor building the static maps without testing for the first
\* call
first_call_untested == TRUE

\* "If first call, then initialize this static map"
first_call ==
    rx_fields_to_filename = EmptyMap \/ tx_fields_to_filename = EmptyMap

\* build_fields_to_filename_maps: map::insert of every pair (an insert
\* leaves a key that is there as it is)
build_fields_to_filename_maps ==
    [rx |-> [r \in rx_fields |->
                IF r \in DOMAIN rx_fields_to_filename
                THEN rx_fields_to_filename[r] ELSE RxFilenameTable[r]],
     tx |-> [t \in tx_fields |->
                IF t \in DOMAIN tx_fields_to_filename
                THEN tx_fields_to_filename[t] ELSE TxFilenameTable[t]]]

\* a constructor that throws leaves no object behind
Construct ==
    /\ object \in {"absent", "destroyed"}
    /\ \E iface \in Interfaces, dirfault \in {"ok", "opendir", "closedir"} :
          LET first == first_call
          IN  \E r \in {construct(iface, dirfault)} :
              /\ rx_fields_to_filename' =
                    IF first THEN build_fields_to_filename_maps.rx
                    ELSE rx_fields_to_filename
              /\ tx_fields_to_filename' =
                    IF first THEN build_fields_to_filename_maps.tx
                    ELSE tx_fields_to_filename
              /\ builds' = IF first THEN builds + 1 ELSE builds
              /\ exc' = r.exc
              /\ errno' = r.errno
              /\ syslog' = r.log
              /\ object' = IF r.exc = NoExc THEN "alive" ELSE "absent"
              /\ interface_name_' = IF r.exc = NoExc THEN iface ELSE ""
              /\ interface_stats_path_' = IF r.exc = NoExc THEN r.path ELSE ""
              /\ rx_to_update_' = IF r.exc = NoExc THEN r.rx ELSE EmptyMap
              /\ tx_to_update_' = IF r.exc = NoExc THEN r.tx ELSE EmptyMap
              /\ fdtable' = r.fdtable
    /\ opens' = <<>>
    /\ subscribed' = FALSE
    /\ op' = "construct"
    /\ ret' = NoRet
    /\ UNCHANGED <<files, writes>>

(***************************************************************************)
(* network_stats::~network_stats()                                         *)
(***************************************************************************)
RECURSIVE close_all_stop(_, _, _)
\* close_all that gives up at the first close that fails
close_all_stop(fds, closefail, st) ==
    IF fds = <<>> \/ (st.log # <<>> /\ st.log[Len(st.log)].ret = -1) THEN st
    ELSE LET fd == fds[1]
             bad == fd \in closefail \/ fd \notin DOMAIN st.fdtable
             st2 == [fdtable |-> [f \in DOMAIN st.fdtable \ {fd} |->
                                     st.fdtable[f]],
                     errno |-> IF bad THEN EIO ELSE st.errno,
                     log |-> Append(st.log,
                                    [call |-> "close", arg |-> fd,
                                     ret |-> IF bad THEN -1 ELSE 0])]
         IN  close_all_stop(Tail(fds), closefail, st2)

RECURSIVE close_all(_, _, _)
\* the destructor's loop over one map: close(fd) for every entry, in key
\* order, ignoring the result.  st = [fdtable, errno, log].  A failing
\* close still releases the descriptor (Linux).
close_all(fds, closefail, st) ==
    IF fds = <<>> THEN st
    ELSE LET fd == fds[1]
             bad == fd \in closefail \/ fd \notin DOMAIN st.fdtable
             st2 == [fdtable |-> [f \in DOMAIN st.fdtable \ {fd} |->
                                     st.fdtable[f]],
                     errno |-> IF bad THEN EIO ELSE st.errno,
                     log |-> Append(st.log,
                                    [call |-> "close", arg |-> fd,
                                     ret |-> IF bad THEN -1 ELSE 0])]
         IN  close_all(Tail(fds), closefail, st2)

\* the descriptors held by the entries of a map
FdsOf(map) == {map[k].fd : k \in DOMAIN map}

\* the descriptors of a map's entries in key order
FdsInOrder(map) ==
    LET ks == SortedSeq(DOMAIN map)
    IN  [i \in 1..Len(ks) |-> map[ks[i]].fd]

Destroy ==
    /\ object = "alive"
    /\ \E closefail \in
             SUBSET (FdsOf(rx_to_update_) \cup FdsOf(tx_to_update_)) :
          LET st0 == [fdtable |-> fdtable, errno |-> errno, log |-> <<>>]
              st1 == close_all(FdsInOrder(rx_to_update_), closefail, st0)
              st2 == close_all(FdsInOrder(tx_to_update_), closefail, st1)
          IN  /\ fdtable' = st2.fdtable
              /\ errno' = st2.errno
              /\ syslog' = st2.log
    /\ object' = "destroyed"
    /\ rx_to_update_' = EmptyMap
    /\ tx_to_update_' = EmptyMap
    /\ interface_name_' = ""
    /\ interface_stats_path_' = ""
    /\ exc' = NoExc
    /\ op' = "destroy"
    /\ ret' = NoRet
    /\ UNCHANGED <<rx_fields_to_filename, tx_fields_to_filename, files,
                   opens, subscribed, builds, writes>>

(***************************************************************************)
(* fetch_one_rx / fetch_one_tx and the getters                             *)
(***************************************************************************)
fetch_one_rx(r) ==
    IF r \notin DOMAIN rx_to_update_ THEN Zero ELSE rx_to_update_[r].value

fetch_one_tx(t) ==
    IF t \notin DOMAIN tx_to_update_ THEN Zero ELSE tx_to_update_[t].value

\* get_receive_data with the packets field filled from the wrong kind
get_receive_data_miswired ==
    [bytes |-> fetch_one_rx(RX_BYTES),
     compressed |-> fetch_one_rx(RX_COMPRESSED),
     CRC_errors |-> fetch_one_rx(RX_CRC_ERRORS),
     dropped |-> fetch_one_rx(RX_DROPPED),
     errors |-> fetch_one_rx(RX_ERRORS),
     FIFO_errors |-> fetch_one_rx(RX_FIFO_ERRORS),
     frame_errors |-> fetch_one_rx(RX_FRAME_ERRORS),
     length_errors |-> fetch_one_rx(RX_LENGTH_ERRORS),
     missed_errors |-> fetch_one_rx(RX_MISSED_ERRORS),
     over_errors |-> fetch_one_rx(RX_OVER_ERRORS),
     packets |-> fetch_one_rx(RX_BYTES)]

get_receive_data ==
    [bytes |-> fetch_one_rx(RX_BYTES),
     compressed |-> fetch_one_rx(RX_COMPRESSED),
     CRC_errors |-> fetch_one_rx(RX_CRC_ERRORS),
     dropped |-> fetch_one_rx(RX_DROPPED),
     errors |-> fetch_one_rx(RX_ERRORS),
     FIFO_errors |-> fetch_one_rx(RX_FIFO_ERRORS),
     frame_errors |-> fetch_one_rx(RX_FRAME_ERRORS),
     length_errors |-> fetch_one_rx(RX_LENGTH_ERRORS),
     missed_errors |-> fetch_one_rx(RX_MISSED_ERRORS),
     over_errors |-> fetch_one_rx(RX_OVER_ERRORS),
     packets |-> fetch_one_rx(RX_PACKETS)]

get_transmit_data ==
    [aborted_errors |-> fetch_one_tx(TX_ABORTED_ERRORS),
     bytes |-> fetch_one_tx(TX_BYTES),
     carrier_errors |-> fetch_one_tx(TX_CARRIER_ERRORS),
     compressed |-> fetch_one_tx(TX_COMPRESSED),
     dropped |-> fetch_one_tx(TX_DROPPED),
     errors |-> fetch_one_tx(TX_ERRORS),
     FIFO_errors |-> fetch_one_tx(TX_FIFO_ERRORS),
     heartbeat_errors |-> fetch_one_tx(TX_HEARTBEAT_ERRORS),
     packets |-> fetch_one_tx(TX_PACKETS),
     window_errors |-> fetch_one_tx(TX_WINDOW_ERRORS)]

get_rx_bytes == fetch_one_rx(RX_BYTES)
get_rx_packets == fetch_one_rx(RX_PACKETS)
get_tx_bytes == fetch_one_tx(TX_BYTES)
get_tx_packets == fetch_one_tx(TX_PACKETS)

(***************************************************************************)
(* network_stats::update_one(fd)                                           *)
(***************************************************************************)
\* update_one without the test r_ret == READ_SIZE
update_one_unbounded(fd, io, text, e, einval) ==
    LET seek == [call |-> "lseek", arg |-> fd,
                 ret |-> IF io = "lseek_fail" THEN -1 ELSE 0]
        r_ret == IF io \in {"read_eio", "read_eintr"} THEN -1
                 ELSE IF io = "read_zero" THEN 0
                 ELSE Min(Len(text), READ_SIZE)
        e_rd == CASE io = "read_eio" -> EIO
                  [] io = "read_eintr" -> EINTR
                  [] OTHER -> e
        rbuf == SubSeq(text, 1, r_ret)
        rd == [call |-> "read", arg |-> fd, ret |-> r_ret]
        conv == strtol(rbuf, e_rd, einval)
    IN  IF io = "lseek_fail"
        THEN [exc |-> OsError("lseek", ToString(fd), EIO), value |-> Zero,
              errno |-> EIO, log |-> <<seek>>]
        ELSE IF r_ret <= 0
        THEN [exc |-> OsError("read", ToString(fd), e_rd), value |-> Zero,
              errno |-> e_rd, log |-> <<seek, rd>>]
        ELSE IF conv.errno # "0" /\ conv.errno # EINTR
        THEN [exc |-> OsError("strtol", ToString(fd), conv.errno), value |-> Zero,
              errno |-> conv.errno, log |-> <<seek, rd>>]
        ELSE [exc |-> NoExc, value |-> ToUint64(conv.neg, conv.mag),
              errno |-> conv.errno, log |-> <<seek, rd>>]

\* update_one that tests r_ret < 0 where the code tests r_ret <= 0
update_one_zero_ok(fd, io, text, e, einval) ==
    LET seek == [call |-> "lseek", arg |-> fd,
                 ret |-> IF io = "lseek_fail" THEN -1 ELSE 0]
        r_ret == IF io \in {"read_eio", "read_eintr"} THEN -1
                 ELSE IF io = "read_zero" THEN 0
                 ELSE Min(Len(text), READ_SIZE)
        e_rd == CASE io = "read_eio" -> EIO
                  [] io = "read_eintr" -> EINTR
                  [] OTHER -> e
        rbuf == SubSeq(text, 1, r_ret)
        rd == [call |-> "read", arg |-> fd, ret |-> r_ret]
        conv == strtol(rbuf, e_rd, einval)
    IN  IF io = "lseek_fail"
        THEN [exc |-> OsError("lseek", ToString(fd), EIO), value |-> Zero,
              errno |-> EIO, log |-> <<seek>>]
        ELSE IF r_ret = READ_SIZE
        THEN [exc |-> RuntimeError("read", ToString(fd)), value |-> Zero,
              errno |-> e_rd, log |-> <<seek, rd>>]
        ELSE IF r_ret < 0
        THEN [exc |-> OsError("read", ToString(fd), e_rd), value |-> Zero,
              errno |-> e_rd, log |-> <<seek, rd>>]
        ELSE IF conv.errno # "0" /\ conv.errno # EINTR
        THEN [exc |-> OsError("strtol", ToString(fd), conv.errno),
              value |-> Zero, errno |-> conv.errno, log |-> <<seek, rd>>]
        ELSE [exc |-> NoExc, value |-> ToUint64(conv.neg, conv.mag),
              errno |-> conv.errno, log |-> <<seek, rd>>]

\* io: the outcome of lseek/read on fd; text: what the file holds; e: errno
\* on entry.  Result: the exception or the value, errno after, the calls.
update_one(fd, io, text, e, einval) ==
    LET seek == [call |-> "lseek", arg |-> fd,
                 ret |-> IF io = "lseek_fail" THEN -1 ELSE 0]
        r_ret == IF io \in {"read_eio", "read_eintr"} THEN -1
                 ELSE IF io = "read_zero" THEN 0
                 ELSE Min(Len(text), READ_SIZE)
        e_rd == CASE io = "read_eio" -> EIO
                  [] io = "read_eintr" -> EINTR
                  [] OTHER -> e
        rbuf == SubSeq(text, 1, r_ret)
        rd == [call |-> "read", arg |-> fd, ret |-> r_ret]
        conv == strtol(rbuf, e_rd, einval)
    IN  IF io = "lseek_fail"
        THEN [exc |-> OsError("lseek", ToString(fd), EIO), value |-> Zero,
              errno |-> EIO, log |-> <<seek>>]
        ELSE IF r_ret = READ_SIZE
        THEN [exc |-> RuntimeError("read", ToString(fd)), value |-> Zero,
              errno |-> e_rd, log |-> <<seek, rd>>]
        ELSE IF r_ret <= 0
        THEN [exc |-> OsError("read", ToString(fd), e_rd), value |-> Zero,
              errno |-> e_rd, log |-> <<seek, rd>>]
        ELSE IF conv.errno # "0" /\ conv.errno # EINTR
        THEN [exc |-> OsError("strtol", ToString(fd), conv.errno), value |-> Zero,
              errno |-> conv.errno, log |-> <<seek, rd>>]
        ELSE [exc |-> NoExc, value |-> ToUint64(conv.neg, conv.mag),
              errno |-> conv.errno, log |-> <<seek, rd>>]

RECURSIVE update_loop_append(_, _, _, _)
\* update_loop that appends the digits read to the digits cached
update_loop_append(ks, io, einval, st) ==
    IF ks = <<>> \/ st.exc # NoExc THEN st
    ELSE LET k == ks[1]
             fd == st.map[k].fd
             r == update_one(fd, io[fd], files[fdtable[fd]], st.errno, einval)
             st2 == [map |-> IF r.exc = NoExc
                             THEN [st.map EXCEPT
                                     ![k].value = Canon(@ \o r.value)]
                             ELSE st.map,
                     errno |-> r.errno,
                     exc |-> r.exc,
                     log |-> st.log \o r.log]
         IN  update_loop_append(Tail(ks), io, einval, st2)

RECURSIVE update_loop_drop(_, _, _, _)
\* update_loop that erases the entry whose update_one threw
update_loop_drop(ks, io, einval, st) ==
    IF ks = <<>> \/ st.exc # NoExc THEN st
    ELSE LET k == ks[1]
             fd == st.map[k].fd
             r == update_one(fd, io[fd], files[fdtable[fd]], st.errno, einval)
             st2 == [map |-> IF r.exc = NoExc
                             THEN [st.map EXCEPT ![k].value = r.value]
                             ELSE [x \in DOMAIN st.map \ {k} |-> st.map[x]],
                     errno |-> r.errno,
                     exc |-> r.exc,
                     log |-> st.log \o r.log]
         IN  update_loop_drop(Tail(ks), io, einval, st2)

RECURSIVE update_loop(_, _, _, _)
\* the loop of update_receive_data / update_transmit_data over the keys ks
\* of one map: i->second.value = update_one(i->second.fd), stopping at the
\* first exception.  st = [map, errno, exc, log].
update_loop(ks, io, einval, st) ==
    IF ks = <<>> \/ st.exc # NoExc THEN st
    ELSE LET k == ks[1]
             fd == st.map[k].fd
             r == update_one(fd, io[fd], files[fdtable[fd]], st.errno, einval)
             st2 == [map |-> IF r.exc = NoExc
                             THEN [st.map EXCEPT ![k].value = r.value]
                             ELSE st.map,
                     errno |-> r.errno,
                     exc |-> r.exc,
                     log |-> st.log \o r.log]
         IN  update_loop(Tail(ks), io, einval, st2)

update_receive_data(io, einval, st) ==
    update_loop(SortedSeq(DOMAIN rx_to_update_), io, einval,
                [map |-> rx_to_update_, errno |-> st.errno, exc |-> st.exc,
                 log |-> st.log])

update_transmit_data(io, einval, st) ==
    update_loop(SortedSeq(DOMAIN tx_to_update_), io, einval,
                [map |-> tx_to_update_, errno |-> st.errno, exc |-> st.exc,
                 log |-> st.log])

EntryState == [errno |-> errno, exc |-> NoExc, log |-> <<>>]

\* update_all that updates the transmit side first
update_all_transmit_first(io, einval) ==
    LET t == update_transmit_data(io, einval, EntryState)
        r == IF t.exc = NoExc
             THEN update_receive_data(io, einval, t)
             ELSE [t EXCEPT !.map = rx_to_update_]
    IN  [rx |-> r.map, tx |-> t.map, errno |-> r.errno, exc |-> r.exc,
         log |-> r.log]

\* update_all: the receive update, then (unless it threw) the transmit one
update_all(io, einval) ==
    LET r == update_receive_data(io, einval, EntryState)
        t == IF r.exc = NoExc
             THEN update_transmit_data(io, einval, r)
             ELSE [r EXCEPT !.map = tx_to_update_]
    IN  [rx |-> r.map, tx |-> t.map, errno |-> t.errno, exc |-> t.exc,
         log |-> t.log]

UpdateFrame ==
    /\ ret' = NoRet
    /\ UNCHANGED <<rx_fields_to_filename, tx_fields_to_filename, object,
                   interface_name_, interface_stats_path_, fdtable, files,
                   opens, subscribed, builds, writes>>

\* The libc decides whether strtol sets EINVAL when nothing converts; both
\* kinds of build are behaviours of the program.
UpdateReceiveData ==
    /\ object = "alive"
    /\ \E io \in IoChoices(FdsOf(rx_to_update_)) :
          \E r \in {update_receive_data(io, ev, EntryState) : ev \in BOOLEAN} :
              /\ rx_to_update_' = r.map
              /\ errno' = r.errno
              /\ exc' = r.exc
              /\ syslog' = r.log
    /\ op' = "update"
    /\ UNCHANGED tx_to_update_
    /\ UpdateFrame

UpdateTransmitData ==
    /\ object = "alive"
    /\ \E io \in IoChoices(FdsOf(tx_to_update_)) :
          \E t \in {update_transmit_data(io, ev, EntryState) : ev \in BOOLEAN} :
              /\ tx_to_update_' = t.map
              /\ errno' = t.errno
              /\ exc' = t.exc
              /\ syslog' = t.log
    /\ op' = "update"
    /\ UNCHANGED rx_to_update_
    /\ UpdateFrame

UpdateAll ==
    /\ object = "alive"
    /\ \E io \in IoChoices(FdsOf(rx_to_update_) \cup FdsOf(tx_to_update_)) :
          \E u \in {update_all(io, ev) : ev \in BOOLEAN} :
              /\ rx_to_update_' = u.rx
              /\ tx_to_update_' = u.tx
              /\ errno' = u.errno
              /\ exc' = u.exc
              /\ syslog' = u.log
    /\ op' = "update"
    /\ UpdateFrame

(***************************************************************************)
(* set_rx_stats_to_update / set_tx_stats_to_update                         *)
(***************************************************************************)
RECURSIVE subscribe_loop_reopen(_, _, _, _, _)
\* subscribe_loop without the test for a kind that is tracked already: the
\* file is opened again and map::insert keeps the old entry
subscribe_loop_reopen(ks, names, openfail, dir, st) ==
    IF ks = <<>> \/ st.exc # NoExc THEN st
    ELSE LET k == ks[1]
             statfile_path == interface_stats_path_ \o names[k]
             missing == statfile_path \notin DOMAIN files
             failed == missing \/ k \in openfail
             e == ENOENT
             fd == IF failed THEN -1 ELSE LowestFreeFd(st.fdtable)
             call == [call |-> "open", arg |-> statfile_path, ret |-> fd]
         IN  IF failed
             THEN [st EXCEPT !.exc = OsError("open", statfile_path, e),
                             !.errno = e,
                             !.log = Append(st.log, call)]
             ELSE subscribe_loop_reopen(Tail(ks), names, openfail, dir,
                    [st EXCEPT
                       !.map = [x \in DOMAIN st.map \cup {k} |->
                                   IF x \in DOMAIN st.map THEN st.map[x]
                                   ELSE netdata(fd)],
                       !.fdtable = [f \in DOMAIN st.fdtable \cup {fd} |->
                                       IF f = fd THEN statfile_path
                                       ELSE st.fdtable[f]],
                       !.log = Append(st.log, call),
                       !.opens = Append(st.opens,
                                        [dir |-> dir, kind |-> k,
                                         fd |-> fd])])

RECURSIVE subscribe_loop_insert_first(_, _, _, _, _)
\* subscribe_loop that inserts the entry before it tests the descriptor
subscribe_loop_insert_first(ks, names, openfail, dir, st) ==
    IF ks = <<>> \/ st.exc # NoExc THEN st
    ELSE LET k == ks[1]
             statfile_path == interface_stats_path_ \o names[k]
             missing == statfile_path \notin DOMAIN files
             failed == missing \/ k \in openfail
             e == ENOENT
             fd == IF failed THEN -1 ELSE LowestFreeFd(st.fdtable)
             call == [call |-> "open", arg |-> statfile_path, ret |-> fd]
             map2 == [x \in DOMAIN st.map \cup {k} |->
                         IF x = k THEN netdata(fd) ELSE st.map[x]]
         IN  IF k \in DOMAIN st.map
             THEN subscribe_loop_insert_first(Tail(ks), names, openfail, dir,
                                              st)
             ELSE IF failed
             THEN [st EXCEPT !.map = map2,
                             !.exc = OsError("open", statfile_path, e),
                             !.errno = e,
                             !.log = Append(st.log, call)]
             ELSE subscribe_loop_insert_first(Tail(ks), names, openfail, dir,
                    [st EXCEPT
                       !.map = map2,
                       !.fdtable = [f \in DOMAIN st.fdtable \cup {fd} |->
                                       IF f = fd THEN statfile_path
                                       ELSE st.fdtable[f]],
                       !.log = Append(st.log, call),
                       !.opens = Append(st.opens,
                                        [dir |-> dir, kind |-> k,
                                         fd |-> fd])])

RECURSIVE subscribe_loop_leak(_, _, _, _, _)
\* subscribe_loop that collects the new entries aside and stores them when
\* the loop is through: a failing open loses the descriptors opened before
\* it in the same call
subscribe_loop_leak(ks, names, openfail, dir, st) ==
    IF ks = <<>> \/ st.exc # NoExc THEN st
    ELSE LET k == ks[1]
             statfile_path == interface_stats_path_ \o names[k]
             missing == statfile_path \notin DOMAIN files
             failed == missing \/ k \in openfail
             e == ENOENT
             fd == IF failed THEN -1 ELSE LowestFreeFd(st.fdtable)
             call == [call |-> "open", arg |-> statfile_path, ret |-> fd]
         IN  IF k \in DOMAIN st.map
             THEN subscribe_loop_leak(Tail(ks), names, openfail, dir, st)
             ELSE IF failed
             THEN [st EXCEPT !.map = IF dir = "rx" THEN rx_to_update_
                                     ELSE tx_to_update_,
                             !.exc = OsError("open", statfile_path, e),
                             !.errno = e,
                             !.log = Append(st.log, call)]
             ELSE subscribe_loop_leak(Tail(ks), names, openfail, dir,
                    [st EXCEPT
                       !.map = [x \in DOMAIN st.map \cup {k} |->
                                   IF x = k THEN netdata(fd) ELSE st.map[x]],
                       !.fdtable = [f \in DOMAIN st.fdtable \cup {fd} |->
                                       IF f = fd THEN statfile_path
                                       ELSE st.fdtable[f]],
                       !.log = Append(st.log, call),
                       !.opens = Append(st.opens,
                                        [dir |-> dir, kind |-> k,
                                         fd |-> fd])])

RECURSIVE subscribe_loop(_, _, _, _, _)
\* the loop of set_rx_stats_to_update (set_tx_stats_to_update is the same
\* code over the tx map) over the requested kinds ks in set order.
\* st = [map, fdtable, errno, exc, log, opens]; names is the static
\* filename map; openfail the kinds whose open fails (the file is not
\* there when it is opened); dir tags the records of opens.
subscribe_loop(ks, names, openfail, dir, st) ==
    IF ks = <<>> \/ st.exc # NoExc THEN st
    ELSE LET k == ks[1]
             statfile_path == interface_stats_path_ \o names[k]
             missing == statfile_path \notin DOMAIN files
             failed == missing \/ k \in openfail
             e == ENOENT
             fd == IF failed THEN -1 ELSE LowestFreeFd(st.fdtable)
             call == [call |-> "open", arg |-> statfile_path, ret |-> fd]
         IN  IF k \in DOMAIN st.map
             THEN subscribe_loop(Tail(ks), names, openfail, dir, st)
             ELSE IF failed
             THEN [st EXCEPT !.exc = OsError("open", statfile_path, e),
                             !.errno = e,
                             !.log = Append(st.log, call)]
             ELSE subscribe_loop(Tail(ks), names, openfail, dir,
                    [st EXCEPT
                       !.map = [x \in DOMAIN st.map \cup {k} |->
                                   IF x = k THEN netdata(fd) ELSE st.map[x]],
                       !.fdtable = [f \in DOMAIN st.fdtable \cup {fd} |->
                                       IF f = fd THEN statfile_path
                                       ELSE st.fdtable[f]],
                       !.log = Append(st.log, call),
                       !.opens = Append(st.opens,
                                        [dir |-> dir, kind |-> k,
                                         fd |-> fd])])

set_rx_stats_to_update(to_update, openfail) ==
    subscribe_loop(SortedSeq(to_update), rx_fields_to_filename, openfail, "rx",
                   [map |-> rx_to_update_, fdtable |-> fdtable,
                    errno |-> errno, exc |-> NoExc, log |-> <<>>,
                    opens |-> opens])

set_tx_stats_to_update(to_update, openfail) ==
    subscribe_loop(SortedSeq(to_update), tx_fields_to_filename, openfail, "tx",
                   [map |-> tx_to_update_, fdtable |-> fdtable,
                    errno |-> errno, exc |-> NoExc, log |-> <<>>,
                    opens |-> opens])

\* the kinds whose open fails in one subscribe call: the loop stops at the
\* first failing open, so one failing kind stands for any set that has it
\* as its first member
OpenFailChoices(asked) == {{}} \cup {{k} : k \in asked}

SubscribeFrame ==
    /\ ret' = NoRet
    /\ UNCHANGED <<rx_fields_to_filename, tx_fields_to_filename, object,
                   interface_name_, interface_stats_path_, files, builds,
                   writes>>

SetRxStatsToUpdate ==
    /\ object = "alive"
    /\ \E to_update \in RxRequests, openfail \in OpenFailChoices(RxAsked) :
          /\ openfail \subseteq to_update
          /\ LET r == set_rx_stats_to_update(to_update, openfail)
             IN  /\ rx_to_update_' = r.map
                 /\ fdtable' = r.fdtable
                 /\ errno' = r.errno
                 /\ exc' = r.exc
                 /\ syslog' = r.log
                 /\ opens' = r.opens
    /\ op' = "subscribe"
    /\ subscribed' = TRUE
    /\ UNCHANGED tx_to_update_
    /\ SubscribeFrame

SetTxStatsToUpdate ==
    /\ object = "alive"
    /\ \E to_update \in TxRequests, openfail \in OpenFailChoices(TxAsked) :
          /\ openfail \subseteq to_update
          /\ LET t == set_tx_stats_to_update(to_update, openfail)
             IN  /\ tx_to_update_' = t.map
                 /\ fdtable' = t.fdtable
                 /\ errno' = t.errno
                 /\ exc' = t.exc
                 /\ syslog' = t.log
                 /\ opens' = t.opens
    /\ op' = "subscribe"
    /\ subscribed' = TRUE
    /\ UNCHANGED rx_to_update_
    /\ SubscribeFrame

(***************************************************************************)
(* The getters as calls: const member functions that return a value.       *)
(***************************************************************************)
\* what a const member function leaves alone: everything but the record of
\* the last call
GetterFrame ==
    /\ op' = "get"
    /\ exc' = NoExc
    /\ syslog' = <<>>
    /\ UNCHANGED <<rx_fields_to_filename, tx_fields_to_filename, object,
                   interface_name_, interface_stats_path_, rx_to_update_,
                   tx_to_update_, errno, fdtable, files, opens, subscribed,
                   builds, writes>>

GetReceiveData ==
    /\ object = "alive"
    /\ ret' = [call |-> "get_receive_data", value |-> get_receive_data]
    /\ GetterFrame

GetTransmitData ==
    /\ object = "alive"
    /\ ret' = [call |-> "get_transmit_data", value |-> get_transmit_data]
    /\ GetterFrame

GetRxBytes ==
    /\ object = "alive"
    /\ ret' = [call |-> "get_rx_bytes", value |-> get_rx_bytes]
    /\ GetterFrame

\* get_rx_packets reading the map with operator[], which inserts a default
\* netdata (value 0, fd -1) for a kind that is not tracked
GetRxPackets_subscript ==
    /\ object = "alive"
    /\ ret' = [call |-> "get_rx_packets", value |-> get_rx_packets]
    /\ rx_to_update_' =
          [k \in DOMAIN rx_to_update_ \cup {RX_PACKETS} |->
              IF k \in DOMAIN rx_to_update_ THEN rx_to_update_[k]
              ELSE [value |-> Zero, fd |-> -1]]
    /\ op' = "get"
    /\ exc' = NoExc
    /\ syslog' = <<>>
    /\ UNCHANGED <<rx_fields_to_filename, tx_fields_to_filename, object,
                   interface_name_, interface_stats_path_, tx_to_update_,
                   errno, fdtable, files, opens, subscribed, builds, writes>>

GetRxPackets ==
    /\ object = "alive"
    /\ ret' = [call |-> "get_rx_packets", value |-> get_rx_packets]
    /\ GetterFrame

GetTxBytes ==
    /\ object = "alive"
    /\ ret' = [call |-> "get_tx_bytes", value |-> get_tx_bytes]
    /\ GetterFrame

GetTxPackets ==
    /\ object = "alive"
    /\ ret' = [call |-> "get_tx_packets", value |-> get_tx_packets]
    /\ GetterFrame

Next ==
    \/ KernelWrite
    \/ Construct
    \/ Destroy
    \/ SetRxStatsToUpdate
    \/ SetTxStatsToUpdate
    \/ UpdateReceiveData
    \/ UpdateTransmitData
    \/ UpdateAll
    \/ GetReceiveData
    \/ GetTransmitData
    \/ GetRxBytes
    \/ GetRxPackets
    \/ GetTxBytes
    \/ GetTxPackets

Spec == Init /\ [][Next]_vars
(***************************************************************************)
(* Vocabulary of the properties.                                           *)
(***************************************************************************)
\* the field of a receive_data / transmit_data aggregate that belongs to a
\* kind
rx_field(d, r) ==
    CASE r = RX_BYTES -> d.bytes
      [] r = RX_COMPRESSED -> d.compressed
      [] r = RX_CRC_ERRORS -> d.CRC_errors
      [] r = RX_DROPPED -> d.dropped
      [] r = RX_ERRORS -> d.errors
      [] r = RX_FIFO_ERRORS -> d.FIFO_errors
      [] r = RX_FRAME_ERRORS -> d.frame_errors
      [] r = RX_LENGTH_ERRORS -> d.length_errors
      [] r = RX_MISSED_ERRORS -> d.missed_errors
      [] r = RX_OVER_ERRORS -> d.over_errors
      [] r = RX_PACKETS -> d.packets

tx_field(d, t) ==
    CASE t = TX_ABORTED_ERRORS -> d.aborted_errors
      [] t = TX_BYTES -> d.bytes
      [] t = TX_CARRIER_ERRORS -> d.carrier_errors
      [] t = TX_COMPRESSED -> d.compressed
      [] t = TX_DROPPED -> d.dropped
      [] t = TX_ERRORS -> d.errors
      [] t = TX_FIFO_ERRORS -> d.FIFO_errors
      [] t = TX_HEARTBEAT_ERRORS -> d.heartbeat_errors
      [] t = TX_PACKETS -> d.packets
      [] t = TX_WINDOW_ERRORS -> d.window_errors

\* a text that is a decimal number, optionally followed by a newline
IsDecimalText(t) ==
    LET n == Len(DigitRun(t))
    IN  n > 0 /\ (Len(t) = n \/ (Len(t) = n + 1 /\ t[n + 1] = "\n"))

\* the number such a text holds
DecimalOf(t) == Canon(DigitRun(t))

\* the text of the file behind an open descriptor
TextOf(fd) == files[fdtable[fd]]

\* the descriptors read by the last operation
ReadFds == {syslog[i].arg : i \in {j \in DOMAIN syslog : syslog[j].call = "read"}}

\* the tracked entries, of both directions
Tracked == {rx_to_update_[k] : k \in DOMAIN rx_to_update_}
               \cup {tx_to_update_[k] : k \in DOMAIN tx_to_update_}

(***************************************************************************)
(* C1: every receive or transmit kind that is not tracked reads 0 in the   *)
(* snapshot and through its convenience getter, whatever was subscribed    *)
(* and updated for the other kinds.                                        *)
(***************************************************************************)
C1_UntrackedReadsZero ==
    object = "alive" =>
        /\ \A r \in rx_fields \ DOMAIN rx_to_update_ :
              rx_field(get_receive_data, r) = Zero
        /\ \A t \in tx_fields \ DOMAIN tx_to_update_ :
              tx_field(get_transmit_data, t) = Zero
        /\ RX_BYTES \notin DOMAIN rx_to_update_ => get_rx_bytes = Zero
        /\ RX_PACKETS \notin DOMAIN rx_to_update_ => get_rx_packets = Zero
        /\ TX_BYTES \notin DOMAIN tx_to_update_ => get_tx_bytes = Zero
        /\ TX_PACKETS \notin DOMAIN tx_to_update_ => get_tx_packets = Zero

\* an update has stored non-zero values for the tracked kinds while
\* RX_PACKETS and every transmit kind are untracked
C1_Witness ==
    /\ object = "alive"
    /\ op = "update"
    /\ exc = NoExc
    /\ DOMAIN rx_to_update_ = {RX_BYTES}
    /\ rx_to_update_[RX_BYTES].value = <<1, 2, 3, 4, 5>>
    /\ DOMAIN tx_to_update_ = {}
    /\ get_rx_packets = Zero
    /\ get_receive_data.bytes = <<1, 2, 3, 4, 5>>

(***************************************************************************)
(* C2: after an update that completes without error, every counter it read *)
(* holds the decimal number that its file holds now, whatever it held      *)
(* before (the value is overwritten, not appended to or accumulated).      *)
(***************************************************************************)
C2_UpdateStoresCurrentNumber ==
    (object = "alive" /\ op = "update" /\ exc = NoExc) =>
        /\ ReadFds \in {FdsOf(rx_to_update_), FdsOf(tx_to_update_),
                        FdsOf(rx_to_update_) \cup FdsOf(tx_to_update_)}
        /\ \A e \in Tracked :
              (e.fd \in ReadFds /\ IsDecimalText(TextOf(e.fd))) =>
                  e.value = DecimalOf(TextOf(e.fd))

\* a counter that a first update set to 7 holds 12345 after the file was
\* rewritten and updated again, next to one that still holds 7
C2_Witness ==
    /\ object = "alive"
    /\ op = "update"
    /\ exc = NoExc
    /\ writes = 1
    /\ DOMAIN rx_to_update_ = {RX_BYTES, RX_PACKETS}
    /\ rx_to_update_[RX_BYTES].value = <<7>>
    /\ rx_to_update_[RX_PACKETS].value = <<1, 2, 3, 4, 5>>
    /\ TextOf(rx_to_update_[RX_PACKETS].fd) = T_12345
    /\ ReadFds = {rx_to_update_[RX_BYTES].fd, rx_to_update_[RX_PACKETS].fd}

\* the path the live monitor opens for a kind
RxStatfilePath(r) == interface_stats_path_ \o rx_fields_to_filename[r]
TxStatfilePath(t) == interface_stats_path_ \o tx_fields_to_filename[t]

\* the paths of the kinds that are tracked
TrackedPaths ==
    {RxStatfilePath(r) : r \in DOMAIN rx_to_update_}
        \cup {TxStatfilePath(t) : t \in DOMAIN tx_to_update_}

\* the open calls the last operation made
OpenCalls == {syslog[i] : i \in {j \in DOMAIN syslog : syslog[j].call = "open"}}

\* every entry of the map before the step is the same entry after it
KeepsEntries(before, after) ==
    \A k \in DOMAIN before : k \in DOMAIN after /\ after[k] = before[k]

(***************************************************************************)
(* C3: subscribing is idempotent.  A subscribe call leaves the handle and  *)
(* the cached value of every kind that is tracked already as they are,     *)
(* does not open its file again and raises no error on its account; over   *)
(* the monitor's lifetime a kind is opened successfully at most once.      *)
(***************************************************************************)
C3_SubscribeIdempotent ==
    [][op' = "subscribe" =>
        /\ KeepsEntries(rx_to_update_, rx_to_update_')
        /\ KeepsEntries(tx_to_update_, tx_to_update_')
        /\ \A c \in OpenCalls' : c.arg \notin TrackedPaths
        /\ exc' # NoExc => exc'.arg \notin TrackedPaths
        /\ \A i, j \in DOMAIN opens' :
              (opens'[i].dir = opens'[j].dir
                   /\ opens'[i].kind = opens'[j].kind) => i = j]_vars

\* a subscribe call for kinds that were all tracked before: it made no
\* system call, raised nothing, and the updated values are still cached
C3_Witness ==
    /\ object = "alive"
    /\ op = "subscribe"
    /\ exc = NoExc
    /\ syslog = <<>>
    /\ Len(opens) = 3
    /\ DOMAIN rx_to_update_ = {RX_BYTES, RX_PACKETS}
    /\ rx_to_update_[RX_BYTES].value = <<1, 2, 3, 4, 5>>

(***************************************************************************)
(* C4: an update call that fails leaves no partial snapshot: the cached    *)
(* values after it are not a mixture of values the call rewrote and values *)
(* from before it, so a failed call rewrote none.                          *)
(***************************************************************************)
C4_NoPartialSnapshot ==
    [][(op' = "update" /\ exc' # NoExc) =>
          /\ rx_to_update_' = rx_to_update_
          /\ tx_to_update_' = tx_to_update_]_vars

(***************************************************************************)
(* C5: when the open of a requested kind fails, the subscribe call raises  *)
(* the OS error for that file, the kind has no entry and no descriptor,    *)
(* and every entry that was tracked before the call is unchanged.          *)
(***************************************************************************)
C5_OpenFailureLeavesUntracked ==
    [][\A c \in OpenCalls' :
          (op' = "subscribe" /\ c.ret = -1) =>
              /\ exc'.path = "error"
              /\ exc'.site = "open"
              /\ exc'.arg = c.arg
              /\ \A r \in DOMAIN rx_to_update_' : RxStatfilePath(r)' # c.arg
              /\ \A t \in DOMAIN tx_to_update_' : TxStatfilePath(t)' # c.arg
              /\ \A f \in DOMAIN fdtable' : fdtable'[f] # c.arg
              /\ \A e \in Tracked' : e.fd # -1
              /\ KeepsEntries(rx_to_update_, rx_to_update_')
              /\ KeepsEntries(tx_to_update_, tx_to_update_')]_vars

\* the open of rx_packets failed in a call made while RX_BYTES was tracked
\* with an updated value
C5_Witness ==
    /\ object = "alive"
    /\ op = "subscribe"
    /\ exc.site = "open"
    /\ exc.arg = RxStatfilePath(RX_PACKETS)
    /\ DOMAIN rx_to_update_ = {RX_BYTES}
    /\ rx_to_update_[RX_BYTES].value = <<7>>
    /\ DOMAIN tx_to_update_ = {TX_BYTES}

\* a text without any digit
NonNumericText(t) == t # <<>> /\ \A i \in DOMAIN t : ~IsDigit(t[i])

\* the read calls the last operation made
ReadCalls == {syslog[i] : i \in {j \in DOMAIN syslog : syslog[j].call = "read"}}

\* the entries of both maps that hold descriptor fd are the same after
KeepsFd(fd) ==
    /\ \A k \in DOMAIN rx_to_update_ :
          rx_to_update_[k].fd = fd => rx_to_update_'[k] = rx_to_update_[k]
    /\ \A k \in DOMAIN tx_to_update_ :
          tx_to_update_[k].fd = fd => tx_to_update_'[k] = tx_to_update_[k]

(***************************************************************************)
(* C6: when an update reads a counter whose file holds non-numeric text    *)
(* (such as "abc"), the call fails through the logic-error (FormatAnomaly) *)
(* path and stores no value for that counter.                              *)
(***************************************************************************)
C6_NonNumericIsFormatAnomaly ==
    [][\A c \in ReadCalls' :
          (op' = "update" /\ c.ret > 0 /\ NonNumericText(TextOf(c.arg)')) =>
              /\ exc'.path = "runtime"
              /\ exc'.arg = ToString(c.arg)
              /\ KeepsFd(c.arg)]_vars

(***************************************************************************)
(* C7: when the read of a counter returns READ_SIZE (32) bytes, the update *)
(* stops there with the logic-error (FormatAnomaly) exception: nothing is  *)
(* parsed (errno is as before the call) and the counter keeps its cached   *)
(* value.                                                                  *)
(***************************************************************************)
C7_ReadBoundIsFormatAnomaly ==
    [][\A i \in DOMAIN syslog' :
          (op' = "update" /\ syslog'[i].call = "read"
               /\ syslog'[i].ret = READ_SIZE) =>
              /\ i = Len(syslog')
              /\ exc' = RuntimeError("read", ToString(syslog'[i].arg))
              /\ errno' = errno
              /\ KeepsFd(syslog'[i].arg)]_vars

\* an update stopped at RX_PACKETS, whose file holds 32 digits, after it had
\* read RX_BYTES; RX_PACKETS keeps the 7 of an earlier update
C7_Witness ==
    /\ object = "alive"
    /\ op = "update"
    /\ exc.path = "runtime"
    /\ DOMAIN rx_to_update_ = {RX_BYTES, RX_PACKETS}
    /\ exc.arg = ToString(rx_to_update_[RX_PACKETS].fd)
    /\ TextOf(rx_to_update_[RX_PACKETS].fd) = T_long
    /\ rx_to_update_[RX_PACKETS].value = <<7>>
    /\ Len(syslog) = 4

(***************************************************************************)
(* C8: the destructor calls close exactly once for every handle the        *)
(* monitor opened, of both directions, also when some of the close calls   *)
(* fail.                                                                   *)
(***************************************************************************)
C8_DestroyClosesEachOnce ==
    op = "destroy" =>
        /\ Len(syslog) = Len(opens)
        /\ \A i \in DOMAIN syslog : syslog[i].call = "close"
        /\ \A i \in DOMAIN opens :
              /\ Cardinality({j \in DOMAIN syslog :
                                 syslog[j].arg = opens[i].fd}) = 1
              /\ opens[i].fd \notin DOMAIN fdtable

\* a monitor with two receive handles and one transmit handle was
\* destroyed and its first close failed
C8_Witness ==
    /\ op = "destroy"
    /\ Len(opens) = 3
    /\ \E i \in DOMAIN opens : opens[i].dir = "tx"
    /\ Len(syslog) = 3
    /\ syslog[1].ret = -1
    /\ syslog[3].ret = 0

(***************************************************************************)
(* C9: a constructed monitor on which no subscribe call was made has empty *)
(* tracked maps, has opened no counter file, and its two snapshots are 0   *)
(* in every field.                                                         *)
(***************************************************************************)
C9_FreshMonitorIsEmpty ==
    (object = "alive" /\ ~subscribed) =>
        /\ rx_to_update_ = EmptyMap
        /\ tx_to_update_ = EmptyMap
        /\ DOMAIN fdtable = {}
        /\ OpenCalls = {}
        /\ \A r \in rx_fields : rx_field(get_receive_data, r) = Zero
        /\ \A t \in tx_fields : tx_field(get_transmit_data, t) = Zero

\* a monitor that was constructed and updated, and not subscribed yet
C9_Witness ==
    /\ object = "alive"
    /\ ~subscribed
    /\ op = "update"
    /\ exc = NoExc
    /\ get_receive_data.bytes = Zero

(***************************************************************************)
(* C10: when the interface directory is missing or cannot be opened, the   *)
(* constructor raises the OS error of opendir and no monitor exists: no    *)
(* statistics path is resolved and nothing is tracked or opened.  A live   *)
(* monitor always belongs to a directory that exists.                      *)
(***************************************************************************)
C10_MissingDirFailsConstruction ==
    /\ (op = "construct" /\ syslog[1].arg \notin {SYSFS_PATH \o i : i \in NetDirs})
           => syslog[1].ret = -1
    /\ (op = "construct" /\ syslog[1].ret = -1) =>
           /\ exc.path = "error"
           /\ exc.site = "opendir"
           /\ exc.arg = syslog[1].arg
           /\ Len(syslog) = 1
           /\ object = "absent"
           /\ interface_stats_path_ = ""
           /\ rx_to_update_ = EmptyMap
           /\ tx_to_update_ = EmptyMap
           /\ opens = <<>>
    /\ object = "alive" =>
           /\ interface_name_ \in NetDirs
           /\ interface_stats_path_ = StatsPathOf(interface_name_)

\* the construction for "eth9", which has no directory, has failed
C10_Witness ==
    /\ op = "construct"
    /\ exc.site = "opendir"
    /\ exc.arg = SYSFS_PATH \o "eth9"
    /\ object = "absent"

\* the close calls the last operation made
CloseCalls == {syslog[i] : i \in {j \in DOMAIN syslog : syslog[j].call = "close"}}

\* every entry of map before is in map after with the same descriptor
KeepsHandles(before, after) ==
    \A k \in DOMAIN before :
        /\ k \in DOMAIN after
        /\ after[k].fd = before[k].fd

(***************************************************************************)
(* C11: while the monitor lives, whatever is called and whether or not it  *)
(* fails, a tracked kind stays tracked with the same descriptor, and that  *)
(* descriptor stays open on the same file: nothing closes it.              *)
(***************************************************************************)
C11_TrackedSetOnlyGrows ==
    [][(object = "alive" /\ object' = "alive") =>
          /\ KeepsHandles(rx_to_update_, rx_to_update_')
          /\ KeepsHandles(tx_to_update_, tx_to_update_')
          /\ \A fd \in FdsOf(rx_to_update_) \cup FdsOf(tx_to_update_) :
                /\ fd \in DOMAIN fdtable'
                /\ fdtable'[fd] = fdtable[fd]
          /\ CloseCalls' = {}]_vars

\* all three kinds are tracked and an update of them has just failed
C11_Witness ==
    /\ object = "alive"
    /\ DOMAIN rx_to_update_ = RxAsked
    /\ DOMAIN tx_to_update_ = TxAsked
    /\ op = "update"
    /\ exc # NoExc
    /\ Len(opens) = 3
    /\ errno # "0"

\* the value of an entry changes only in an update whose read of the
\* entry's descriptor returned data
ChangesOnlyByRead(before, after) ==
    \A k \in DOMAIN before \cap DOMAIN after :
        after[k].value # before[k].value =>
            /\ op' = "update"
            /\ \E c \in ReadCalls' : c.arg = before[k].fd /\ c.ret > 0

(***************************************************************************)
(* C12: a kind that a subscribe call adds has cached value 0 and its       *)
(* snapshot field reads 0; the value (and the field, which always reads    *)
(* the value) changes only in an update call that read the kind's file, so *)
(* it stays 0 until the first such update.                                 *)
(***************************************************************************)
C12_ZeroUntilFirstUpdate ==
    [][/\ \A k \in DOMAIN rx_to_update_' \ DOMAIN rx_to_update_ :
             rx_to_update_'[k].value = Zero
       /\ \A k \in DOMAIN tx_to_update_' \ DOMAIN tx_to_update_ :
             tx_to_update_'[k].value = Zero
       /\ \A k \in DOMAIN rx_to_update_' :
             rx_field(get_receive_data, k)' = rx_to_update_'[k].value
       /\ \A k \in DOMAIN tx_to_update_' :
             tx_field(get_transmit_data, k)' = tx_to_update_'[k].value
       /\ ChangesOnlyByRead(rx_to_update_, rx_to_update_')
       /\ ChangesOnlyByRead(tx_to_update_, tx_to_update_')]_vars

\* rx_bytes is tracked and still reads 0 after a successful update of the
\* transmit side, which stored 7 for tx_bytes
C12_Witness ==
    /\ object = "alive"
    /\ op = "update"
    /\ exc = NoExc
    /\ RX_BYTES \in DOMAIN rx_to_update_
    /\ get_receive_data.bytes = Zero
    /\ TX_BYTES \in DOMAIN tx_to_update_
    /\ get_transmit_data.bytes = <<7>>
    /\ \E c \in ReadCalls : c.arg = tx_to_update_[TX_BYTES].fd

(***************************************************************************)
(* The range of the counters: the same program started on counter files    *)
(* that hold numbers up to 2^64 - 1.                                       *)
(***************************************************************************)
UINT64_MAX == <<1,8,4,4,6,7,4,4,0,7,3,7,0,9,5,5,1,6,1,5>>

\* 0, a small number, 2^63 - 1, 2^63 and 2^64 - 1
RangeValues == {Zero, <<7>>, LONG_MAX, LONG_MIN_MAG, UINT64_MAX}

\* the decimal text of a number, with or without the newline sysfs appends
DecimalText(d, nl) ==
    [i \in 1..(Len(d) + IF nl THEN 1 ELSE 0) |->
        IF i > Len(d) THEN "\n" ELSE DigitChars[d[i] + 1]]

RangeTexts == {DecimalText(d, nl) : d \in RangeValues, nl \in BOOLEAN}

InitRange ==
    /\ rx_fields_to_filename = EmptyMap
    /\ tx_fields_to_filename = EmptyMap
    /\ object = "absent"
    /\ interface_name_ = ""
    /\ interface_stats_path_ = ""
    /\ rx_to_update_ = EmptyMap
    /\ tx_to_update_ = EmptyMap
    /\ errno = "0"
    /\ fdtable = EmptyMap
    /\ files \in {[p \in StatFiles |->
                      IF p = RxPath("lo", RX_BYTES) THEN t ELSE T_7] :
                  t \in RangeTexts}
    /\ op = "none"
    /\ exc = NoExc
    /\ syslog = <<>>
    /\ opens = <<>>
    /\ subscribed = FALSE
    /\ builds = 0
    /\ ret = NoRet
    /\ writes = 0

NextRange ==
    \/ Construct
    \/ Destroy
    \/ SetRxStatsToUpdate
    \/ SetTxStatsToUpdate
    \/ UpdateReceiveData
    \/ UpdateTransmitData
    \/ UpdateAll

SpecRange == InitRange /\ [][NextRange]_vars

(***************************************************************************)
(* C13: whenever an update, entered with errno 0, reads a counter whose    *)
(* file holds the decimal text of a number n <= 2^64 - 1 (with or without  *)
(* a newline), the update does not fail on that counter and the counter's  *)
(* cached value is n afterwards, also for n above 2^63 - 1.                *)
(***************************************************************************)
C13_FullUint64Range ==
    [][\A c \in ReadCalls' :
          (/\ op' = "update"
           /\ errno = "0"
           /\ c.ret > 0
           /\ c.ret < READ_SIZE
           /\ IsDecimalText(TextOf(c.arg))
           /\ ~DigitsLess(UINT64_MAX, DecimalOf(TextOf(c.arg)))) =>
              /\ exc'.arg # ToString(c.arg)
              /\ \A e \in Tracked' :
                    e.fd = c.arg => e.value = DecimalOf(TextOf(c.arg))]_vars

(***************************************************************************)
(* C14: a getter makes no system call, throws nothing and leaves the       *)
(* tracked maps, the descriptors, errno and the files as they were; what   *)
(* it returns is read from the cached state, and the four shortcut getters *)
(* return the bytes / packets fields of the snapshot of the same state.    *)
(***************************************************************************)
C14_GettersArePure ==
    [][/\ op' = "get" =>
             /\ syslog' = <<>>
             /\ exc'.path = "none"
             /\ rx_to_update_' = rx_to_update_
             /\ tx_to_update_' = tx_to_update_
             /\ fdtable' = fdtable
             /\ opens' = opens
             /\ errno' = errno
             /\ files' = files
             /\ object' = object
       /\ ret'.call = "get_receive_data" => ret'.value = get_receive_data
       /\ ret'.call = "get_transmit_data" => ret'.value = get_transmit_data
       /\ ret'.call = "get_rx_bytes" => ret'.value = get_receive_data.bytes
       /\ ret'.call = "get_rx_packets" => ret'.value = get_receive_data.packets
       /\ ret'.call = "get_tx_bytes" => ret'.value = get_transmit_data.bytes
       /\ ret'.call = "get_tx_packets" => ret'.value = get_transmit_data.packets
       /\ get_rx_bytes' = get_receive_data'.bytes
       /\ get_rx_packets' = get_receive_data'.packets
       /\ get_tx_bytes' = get_transmit_data'.bytes
       /\ get_tx_packets' = get_transmit_data'.packets]_vars

\* get_rx_packets returned 0 for the untracked rx_packets while rx_bytes is
\* tracked and holds 7
C14_Witness ==
    /\ object = "alive"
    /\ op = "get"
    /\ ret.call = "get_rx_packets"
    /\ ret.value = Zero
    /\ DOMAIN rx_to_update_ = {RX_BYTES}
    /\ rx_to_update_[RX_BYTES].value = <<7>>

\* every lseek and read of the last operation succeeded and returned data
IoSucceeded ==
    \A i \in DOMAIN syslog :
        /\ syslog[i].call = "lseek" => syslog[i].ret = 0
        /\ syslog[i].call = "read" =>
              (syslog[i].ret > 0 /\ syslog[i].ret < READ_SIZE)

\* every tracked counter's file holds a decimal number that fits a long
AllTextsValid ==
    \A e \in Tracked :
        /\ IsDecimalText(TextOf(e.fd))
        /\ ~DigitsLess(LONG_MAX, DecimalOf(TextOf(e.fd)))

(***************************************************************************)
(* C15: an update that follows a failed subscribe or update call succeeds  *)
(* when all its lseek and read calls succeed and every tracked file holds  *)
(* valid decimal text; and an update fails at the conversion only when the *)
(* text it has just read does not convert.                                 *)
(***************************************************************************)
C15_FailuresDoNotPoison ==
    [][/\ (/\ op \in {"subscribe", "update"}
           /\ exc.path # "none"
           /\ op' = "update"
           /\ IoSucceeded'
           /\ AllTextsValid') => exc'.path = "none"
       /\ (op' = "update" /\ exc'.site = "strtol") =>
              \E e \in Tracked' :
                  /\ ToString(e.fd) = exc'.arg
                  /\ ~(/\ IsDecimalText(TextOf(e.fd)')
                       /\ ~DigitsLess(LONG_MAX, DecimalOf(TextOf(e.fd)')))]_vars

\* the descriptors the last operation passed to lseek and read
SeekReadFds ==
    {syslog[i].arg :
        i \in {j \in DOMAIN syslog : syslog[j].call \in {"lseek", "read"}}}

(***************************************************************************)
(* C16: an update call keeps both tracked sets and every descriptor; an    *)
(* update that touched no transmit descriptor (update_receive_data, or an  *)
(* update_all that failed on the receive side) leaves every transmit value *)
(* unchanged, and symmetrically for the receive values; update_all works   *)
(* on all receive counters before the first transmit counter.              *)
(***************************************************************************)
C16_UpdateFrames ==
    [][op' = "update" =>
          /\ DOMAIN rx_to_update_' = DOMAIN rx_to_update_
          /\ DOMAIN tx_to_update_' = DOMAIN tx_to_update_
          /\ KeepsHandles(rx_to_update_, rx_to_update_')
          /\ KeepsHandles(tx_to_update_, tx_to_update_')
          /\ fdtable' = fdtable
          /\ opens' = opens
          /\ SeekReadFds' \subseteq FdsOf(rx_to_update_) \cup FdsOf(tx_to_update_)
          /\ SeekReadFds' \cap FdsOf(tx_to_update_) = {} =>
                tx_to_update_' = tx_to_update_
          /\ SeekReadFds' \cap FdsOf(rx_to_update_) = {} =>
                rx_to_update_' = rx_to_update_
          /\ \A i, j \in DOMAIN syslog' :
                (/\ syslog'[i].arg \in FdsOf(rx_to_update_)
                 /\ syslog'[j].arg \in FdsOf(tx_to_update_)) => i < j
          /\ (\E fd \in FdsOf(rx_to_update_) :
                 exc'.path # "none" /\ exc'.arg = ToString(fd)) =>
                tx_to_update_' = tx_to_update_]_vars

\* an update_all has read the two receive counters and then the transmit
\* counter, and stored 7 for each
C16_Witness ==
    /\ object = "alive"
    /\ op = "update"
    /\ exc.path = "none"
    /\ Len(syslog) = 6
    /\ syslog[1].arg = rx_to_update_[RX_BYTES].fd
    /\ syslog[3].arg = rx_to_update_[RX_PACKETS].fd
    /\ syslog[5].arg = tx_to_update_[TX_BYTES].fd
    /\ \A e \in Tracked : e.value = <<7>>

(***************************************************************************)
(* C17: when in an update lseek fails, or read returns 0 or a negative     *)
(* result, the update ends there with the OS-error exception of that call  *)
(* for that descriptor, and the counter keeps the value it had.            *)
(***************************************************************************)
C17_IoFailureKeepsValue ==
    [][\A i \in DOMAIN syslog' :
          (/\ op' = "update"
           /\ \/ syslog'[i].call = "lseek" /\ syslog'[i].ret = -1
              \/ syslog'[i].call = "read" /\ syslog'[i].ret <= 0) =>
              /\ i = Len(syslog')
              /\ exc'.path = "error"
              /\ exc'.site = syslog'[i].call
              /\ exc'.arg = ToString(syslog'[i].arg)
              /\ KeepsFd(syslog'[i].arg)]_vars

\* an update failed on a read of 0 bytes from rx_bytes, which keeps its 7
\* although the file holds 12345 by now
C17_Witness ==
    /\ object = "alive"
    /\ op = "update"
    /\ exc.path = "error"
    /\ exc.site = "read"
    /\ syslog[Len(syslog)].ret = 0
    /\ RX_BYTES \in DOMAIN rx_to_update_
    /\ syslog[Len(syslog)].arg = rx_to_update_[RX_BYTES].fd
    /\ rx_to_update_[RX_BYTES].value = <<7>>
    /\ TextOf(rx_to_update_[RX_BYTES].fd) = T_12345

(***************************************************************************)
(* C18: an exception names its cause by its path: a failed open, lseek or  *)
(* read (0 or negative) comes through the OS-error path with the errno     *)
(* description; a read of READ_SIZE bytes and a text that does not convert *)
(* come through the logic-error path, which has no errno description.      *)
(***************************************************************************)
C18_ErrorsClassifiedByCause ==
    (op \in {"subscribe", "update"} /\ exc.path # "none") =>
        /\ exc.site \in {"open", "lseek"} =>
              (exc.path = "error" /\ exc.desc = errno)
        /\ (exc.site = "read" /\ syslog[Len(syslog)].ret <= 0) =>
              (exc.path = "error" /\ exc.desc = errno)
        /\ (exc.site = "read" /\ syslog[Len(syslog)].ret = READ_SIZE) =>
              (exc.path = "runtime" /\ exc.desc = "none")
        /\ (/\ exc.site = "strtol"
            /\ \E e \in Tracked :
                  /\ ToString(e.fd) = exc.arg
                  /\ ~(/\ IsDecimalText(TextOf(e.fd))
                       /\ ~DigitsLess(LONG_MAX, DecimalOf(TextOf(e.fd))))) =>
              (exc.path = "runtime" /\ exc.desc = "none")

(***************************************************************************)
(* C19: the destructor raises nothing, and for every close that failed it  *)
(* makes a report through report_error afterwards.                         *)
(***************************************************************************)
C19_CloseFailureReported ==
    op = "destroy" =>
        /\ exc.path = "none"
        /\ \A i \in DOMAIN syslog :
              (syslog[i].call = "close" /\ syslog[i].ret = -1) =>
                  \E j \in DOMAIN syslog :
                      /\ j > i
                      /\ syslog[j].call = "report_error"

\* the entry that records the open call o: the one of its kind, in the map
\* of its direction, holding its descriptor
RecordedIn(o, map) == o.kind \in DOMAIN map /\ map[o.kind].fd = o.fd

(***************************************************************************)
(* C20: while the monitor lives, the descriptors open on counter files are *)
(* exactly the descriptors in the two tracked maps: every successful open  *)
(* is recorded in the entry of its kind (also when a later open of the     *)
(* same subscribe call failed), every entry holds an open descriptor (not  *)
(* -1) on the file of its kind, and no two entries share a descriptor.     *)
(***************************************************************************)
C20_HandlesAreTheTrackedOnes ==
    object = "alive" =>
        /\ DOMAIN fdtable = FdsOf(rx_to_update_) \cup FdsOf(tx_to_update_)
        /\ {opens[i].fd : i \in DOMAIN opens} = DOMAIN fdtable
        /\ \A i \in DOMAIN opens :
              /\ opens[i].dir = "rx" =>
                    (/\ RecordedIn(opens[i], rx_to_update_)
                     /\ opens[i].fd \notin FdsOf(tx_to_update_))
              /\ opens[i].dir = "tx" =>
                    (/\ RecordedIn(opens[i], tx_to_update_)
                     /\ opens[i].fd \notin FdsOf(rx_to_update_))
        /\ \A r \in DOMAIN rx_to_update_ :
              /\ rx_to_update_[r].fd >= 0
              /\ rx_to_update_[r].fd \in DOMAIN fdtable
              /\ fdtable[rx_to_update_[r].fd] = RxStatfilePath(r)
        /\ \A t \in DOMAIN tx_to_update_ :
              /\ tx_to_update_[t].fd >= 0
              /\ tx_to_update_[t].fd \in DOMAIN fdtable
              /\ fdtable[tx_to_update_[t].fd] = TxStatfilePath(t)
        /\ Cardinality(FdsOf(rx_to_update_) \cup FdsOf(tx_to_update_)) =
              Cardinality(DOMAIN rx_to_update_)
                  + Cardinality(DOMAIN tx_to_update_)

\* a subscribe call opened rx_bytes and failed to open rx_packets, while
\* tx_bytes was tracked already
C20_Witness ==
    /\ object = "alive"
    /\ op = "subscribe"
    /\ exc.site = "open"
    /\ exc.arg = RxStatfilePath(RX_PACKETS)
    /\ Len(syslog) = 2
    /\ syslog[1].ret >= 0
    /\ DOMAIN rx_to_update_ = {RX_BYTES}
    /\ DOMAIN tx_to_update_ = {TX_BYTES}

\* the filenames in the two static maps
StaticFilenames ==
    {rx_fields_to_filename[r] : r \in DOMAIN rx_fields_to_filename}
        \cup {tx_fields_to_filename[t] : t \in DOMAIN tx_fields_to_filename}

(***************************************************************************)
(* C21: build_fields_to_filename_maps runs once, in the first construction *)
(* whether or not that construction succeeds; from then on the two static  *)
(* maps hold a filename for each of the 11 receive and 10 transmit kinds,  *)
(* all 21 filenames different, and no later construction, subscribe or     *)
(* update call changes them.                                               *)
(***************************************************************************)
C21_StaticMapsBuiltOnce ==
    [][/\ builds' <= 1
       /\ op' = "construct" => builds' = 1
       /\ builds = 0 =>
             (/\ rx_fields_to_filename = EmptyMap
              /\ tx_fields_to_filename = EmptyMap)
       /\ builds = 1 =>
             (/\ rx_fields_to_filename' = rx_fields_to_filename
              /\ tx_fields_to_filename' = tx_fields_to_filename)
       /\ builds' = 1 =>
             (/\ DOMAIN rx_fields_to_filename' = rx_fields
              /\ DOMAIN tx_fields_to_filename' = tx_fields
              /\ Cardinality(DOMAIN rx_fields_to_filename') = 11
              /\ Cardinality(DOMAIN tx_fields_to_filename') = 10
              /\ Cardinality(StaticFilenames') = 21)]_vars

\* a monitor built after an earlier call had failed (errno is still set) has
\* subscribed its three counters and updated them, the maps being the built
\* ones
C21_Witness ==
    /\ builds = 1
    /\ object = "alive"
    /\ errno # "0"
    /\ op = "update"
    /\ exc.path = "none"
    /\ Len(opens) = 3
    /\ rx_fields_to_filename = RxFilenameTable
    /\ tx_fields_to_filename = TxFilenameTable
    /\ Cardinality(StaticFilenames) = 21

=============================================================================
